---- MODULE Spec2Model ----
(***************************************************************************)
(* State machine of the Strava activity fetcher (src/main.go).             *)
(*                                                                         *)
(* src/main.go holds two variants of the program.  Variant 1 (lines        *)
(* 55-198) uses the configured access token as it is and loops over the    *)
(* pages with no status check.  Variant 2 (lines 251-531) obtains a token  *)
(* with ensureAccessToken, fetches each page with fetchActivitiesPage      *)
(* (3 attempts, backoff) and refreshes the token once on a 401.            *)
(*                                                                         *)
(* Every network round trip is one step: an action consumes the response   *)
(* of the request in flight, runs the code up to the next request (or to   *)
(* the end of the run) and puts that request in flight.                    *)
(*                                                                         *)
(* Strings the code inspects (credentials, tokens) are sequences of        *)
(* one-character strings, so that strings.TrimSpace is computed.           *)
(***************************************************************************)
EXTENDS Integers, Sequences, FiniteSets, TLC

(***************************************************************************)
(* Program constants                                                       *)
(***************************************************************************)
perPage == 200
maxRetries == 3
StatusOK == 200
StatusUnauthorized == 401
StatusTooManyRequests == 429
RateLimitPause == 60
WordBytes == 8
ByteBits == 8
Byte == 256
Second == 1000000000
BackoffCap == 30

(***************************************************************************)
(* Bounds of the model                                                     *)
(***************************************************************************)
MaxPage == 3
Max429 == 1
MaxReauth == 1
MaxAttempt == 66
MaxActs == 2

(***************************************************************************)
(* Strings                                                                 *)
(***************************************************************************)
EmptyStr == <<>>

IsSpace(ch) == ch = " "

RECURSIVE TrimLeft(_)
TrimLeft(s) ==
    IF s = <<>> THEN <<>>
    ELSE IF IsSpace(Head(s)) THEN TrimLeft(Tail(s))
    ELSE s

RECURSIVE TrimRight(_)
TrimRight(s) ==
    IF s = <<>> THEN <<>>
    ELSE IF IsSpace(s[Len(s)]) THEN TrimRight(SubSeq(s, 1, Len(s) - 1))
    ELSE s

TrimSpace(s) == TrimRight(TrimLeft(s))

(***************************************************************************)
(* Inputs: the configuration file and the provider's responses             *)
(***************************************************************************)
ClientIds == { <<" ">>, <<"i", "d">> }
ClientSecrets == { <<>>, <<"s">> }
ConfiguredRefreshTokens == { <<" ">>, <<"R", "1">> }
ConfiguredAccessTokens == { <<>>, <<" ">>, <<"A", "0">> }

Configs ==
    [ StravaClientId : ClientIds,
      StravaClientSecret : ClientSecrets,
      StravaRefreshToken : ConfiguredRefreshTokens,
      StravaAccessToken : ConfiguredAccessTokens ]

GrantedAccessTokens == { <<"A", "1">>, <<"A", "2">> }
GrantedRefreshTokens == { <<>>, <<"R", "1">>, <<"R", "2">> }

Statuses == { 200, 401, 429, 500 }
PageSizes == { 0, 80, 150, 200 }

NoRL == [ Usage |-> "", Limit |-> "" ]
RateLimits == { NoRL, [ Usage |-> "10,100", Limit |-> "100,1000" ] }

\* A response body: an array of n activities, or text that is not one.
Malformed == [ ok |-> FALSE, n |-> 0 ]
PageBodies == { Malformed } \cup { [ ok |-> TRUE, n |-> k ] : k \in PageSizes }

\* A token response body: an authResponse object, or text that is not one.
NoAuth == [ ok |-> FALSE, at |-> <<>>, rt |-> <<>> ]
AuthBodies ==
    { NoAuth } \cup
    { [ ok |-> TRUE, at |-> a, rt |-> r ] :
        a \in GrantedAccessTokens, r \in GrantedRefreshTokens }

\* Outcome of client.Do followed by io.ReadAll.
TransportError ==
    [ err |-> TRUE, status |-> 0, rl |-> NoRL, readErr |-> FALSE, body |-> Malformed ]

\* Variant 2 looks at the body of a page response only when the status is 200.
PageOutcomes ==
    { TransportError } \cup
    { [ err |-> FALSE, status |-> s, rl |-> r, readErr |-> TRUE, body |-> Malformed ] :
        s \in Statuses, r \in RateLimits } \cup
    { [ err |-> FALSE, status |-> s, rl |-> r, readErr |-> FALSE, body |-> Malformed ] :
        s \in Statuses \ { StatusOK }, r \in RateLimits } \cup
    { [ err |-> FALSE, status |-> StatusOK, rl |-> r, readErr |-> FALSE, body |-> b ] :
        r \in RateLimits, b \in PageBodies }

\* Variant 1 parses the body whatever the status is and reads no header.
V1Outcomes ==
    { TransportError } \cup
    { [ err |-> FALSE, status |-> s, rl |-> NoRL, readErr |-> TRUE, body |-> Malformed ] :
        s \in Statuses } \cup
    { [ err |-> FALSE, status |-> s, rl |-> NoRL, readErr |-> FALSE, body |-> b ] :
        s \in Statuses, b \in PageBodies }

ProbeOutcomes ==
    { [ err |-> TRUE, status |-> 0 ] } \cup
    { [ err |-> FALSE, status |-> s ] : s \in Statuses }

GrantOutcomes ==
    { [ err |-> TRUE, status |-> 0, body |-> NoAuth ] } \cup
    { [ err |-> FALSE, status |-> s, body |-> NoAuth ] : s \in Statuses } \cup
    { [ err |-> FALSE, status |-> StatusOK, body |-> b ] : b \in AuthBodies }


(***************************************************************************)
(* Pure functions of the code                                              *)
(***************************************************************************)
\* time.Duration is an int64 count of nanoseconds.  A value is the sequence
\* of its WordBytes bytes, two's complement, the lowest byte first.
Word(f) == SubSeq(f, 1, WordBytes)

Zero64 == Word([ i \in 1 .. WordBytes |-> 0 ])

\* Conversion of an untyped constant 0 <= n < 2^31 to int64.
Int64(n) ==
    Word([ i \in 1 .. WordBytes |->
            IF i <= 4 THEN (n \div (Byte ^ (i - 1))) % Byte ELSE 0 ])

\* Byte i of w counted from 0, 0 below the lowest byte.
ByteAt(w, i) == IF i >= 0 /\ i < WordBytes THEN w[i + 1] ELSE 0

\* w << s on int64: bits shifted out are lost, a count of 64 or more gives 0.
Shl(w, s) ==
    IF s >= WordBytes * ByteBits THEN Zero64
    ELSE LET q == s \div ByteBits
             r == s % ByteBits
         IN  Word([ i \in 1 .. WordBytes |->
                     ((ByteAt(w, i - 1 - q) * (2 ^ r)) % Byte)
                     + ((ByteAt(w, i - 2 - q) * (2 ^ r)) \div Byte) ])

\* a * b on int64, wrapping: column k of the long multiplication with its carry.
Mul64(a, b) ==
    LET column[k \in 0 .. (WordBytes - 1)] ==
            LET part[i \in 0 .. k] ==
                    a[i + 1] * b[k - i + 1] + (IF i = 0 THEN 0 ELSE part[i - 1])
            IN  part[k]
        total[k \in 0 .. (WordBytes - 1)] ==
            column[k] + (IF k = 0 THEN 0 ELSE total[k - 1] \div Byte)
    IN  Word([ i \in 1 .. WordBytes |-> total[i - 1] % Byte ])

\* a < 0 on int64.
Negative(a) == a[WordBytes] >= Byte \div 2

\* a > b on int64 (signed).
Gt64(a, b) ==
    IF Negative(a) # Negative(b) THEN Negative(b)
    ELSE \E i \in 1 .. WordBytes :
            /\ a[i] > b[i]
            /\ \A j \in (i + 1) .. WordBytes : a[j] = b[j]

\* k * time.Second.
SecondsDuration(k) == Mul64(Int64(k), Int64(Second))

\* backoff: the duration returned, for any int attempt.
backoff(n) ==
    LET a == IF n < 1 THEN 1 ELSE n
        d == Mul64(Shl(Int64(1), a - 1), Int64(Second))
    IN  IF Gt64(d, SecondsDuration(BackoffCap)) THEN SecondsDuration(BackoffCap) ELSE d

\* The whole seconds of a duration between 0 and BackoffCap seconds.
Seconds(d) == CHOOSE k \in 0 .. BackoffCap : SecondsDuration(k) = d

\* time.Sleep(backoff(attempt)) in fetchActivitiesPage, attempt in 1..maxRetries.
SleepSeconds == SubSeq([ a \in 1 .. maxRetries |-> Seconds(backoff(a)) ], 1, maxRetries)

UpperCase ==
    << "A", "B", "C", "D", "E", "F", "G", "H", "I", "J", "K", "L", "M",
       "N", "O", "P", "Q", "R", "S", "T", "U", "V", "W", "X", "Y", "Z" >>

LowerCase ==
    << "a", "b", "c", "d", "e", "f", "g", "h", "i", "j", "k", "l", "m",
       "n", "o", "p", "q", "r", "s", "t", "u", "v", "w", "x", "y", "z" >>

\* unicode.ToLower on the characters of the model's names.
ToLowerRune(c) ==
    IF \E n \in 1 .. Len(UpperCase) : UpperCase[n] = c
    THEN LowerCase[CHOOSE n \in 1 .. Len(UpperCase) : UpperCase[n] = c]
    ELSE c

\* strings.ToLower.
ToLower(str) == [ i \in 1 .. Len(str) |-> ToLowerRune(str[i]) ]

\* strings.EqualFold on the characters of the model's names.
EqualFold(a, b) == ToLower(a) = ToLower(b)

DeskTreadmill ==
    << "D", "e", "s", "k", " ", "T", "r", "e", "a", "d", "m", "i", "l", "l" >>

deskTreadmillLower ==
    << "d", "e", "s", "k", " ", "t", "r", "e", "a", "d", "m", "i", "l", "l" >>

\* main (variant 1): the test of the aggregation loop.
V1NameMatches(name) == ToLower(name) = deskTreadmillLower

\* Mutant of NameMatches: the name is not trimmed.
NameMatchesNoTrim(name) == EqualFold(name, DeskTreadmill)

\* main (variant 2): the test of the aggregation loop.
NameMatches(name) == EqualFold(TrimSpace(name), DeskTreadmill)

RECURSIVE AggregateFrom(_, _, _, _, _)
AggregateFrom(v, acts, i, deskCount, totalMeters) ==
    IF i > Len(acts)
    THEN [ deskCount |-> deskCount, totalMeters |-> totalMeters, all |-> acts ]
    ELSE IF (IF v = 1 THEN V1NameMatches(acts[i].Name) ELSE NameMatches(acts[i].Name))
    THEN AggregateFrom(v, acts, i + 1, deskCount + 1, totalMeters + acts[i].Distance)
    ELSE AggregateFrom(v, acts, i + 1, deskCount, totalMeters)

\* main: the aggregation loop over the collection, distances in whole metres.
Aggregate(v, acts) == AggregateFrom(v, acts, 1, 0, 0)

\* json.Unmarshal(body, &items): the error and the number of items.
Unmarshal(body) ==
    [ err |-> ~body.ok, n |-> IF body.ok THEN body.n ELSE 0 ]

\* Mutant of CredsMissing: the refresh token is not checked.
CredsMissingNoRefreshToken(c) ==
    \/ TrimSpace(c.StravaClientId) = EmptyStr
    \/ TrimSpace(c.StravaClientSecret) = EmptyStr

\* refreshAccessToken, the check of the credentials.
CredsMissing(c) ==
    \/ TrimSpace(c.StravaClientId) = EmptyStr
    \/ TrimSpace(c.StravaClientSecret) = EmptyStr
    \/ TrimSpace(c.StravaRefreshToken) = EmptyStr

\* The requests the program issues.
NoRequest == [ kind |-> "none", token |-> <<>>, page |-> 0, per_page |-> 0 ]

GrantRequest(c) ==
    [ kind |-> "grant", token |-> c.StravaRefreshToken, page |-> 0, per_page |-> 0 ]

EnsureProbeRequest(c) ==
    [ kind |-> "probe", token |-> c.StravaAccessToken, page |-> 1, per_page |-> 1 ]

AthleteRequest(tok) ==
    [ kind |-> "athlete", token |-> tok, page |-> 0, per_page |-> 0 ]

PageRequest(tok, p) ==
    [ kind |-> "page", token |-> tok, page |-> p, per_page |-> perPage ]

\* refreshAccessToken, from the response of the grant to the return value.
RefreshReturn(out) ==
    IF out.err \/ out.status # StatusOK \/ ~out.body.ok
    THEN [ err |-> TRUE, at |-> EmptyStr, rt |-> EmptyStr ]
    ELSE [ err |-> FALSE, at |-> out.body.at, rt |-> out.body.rt ]

\* refreshAccessToken, the return value when the credentials are missing.
RefreshConfigError == [ err |-> TRUE, at |-> EmptyStr, rt |-> EmptyStr ]

\* Mutant of ProbeNeedsRefresh: a transport error of the probe is not noticed.
ProbeNeedsRefreshOnly401(out) ==
    out.status = StatusUnauthorized

\* Mutant of ProbeNeedsRefresh: any status but 200 leads to a refresh.
ProbeNeedsRefreshNot200(out) ==
    out.err \/ out.status # StatusOK

\* ensureAccessToken: does the outcome of the probe lead to a refresh?
ProbeNeedsRefresh(out) ==
    out.err \/ out.status = StatusUnauthorized

\* Mutant of AttemptStep: a status of 500 or more is tried again as well.
AttemptStepRetryServerError(out, att, ls, lrl) ==
    LET ls2 == IF out.err THEN ls ELSE out.status
        lrl2 == IF out.err THEN lrl ELSE out.rl
        cont == out.err \/ out.readErr \/ out.status = StatusTooManyRequests
                \/ out.status >= 500
        um == Unmarshal(out.body)
        ok == ~cont /\ out.status = StatusOK
    IN  [ continue |-> cont,
          lastStatus |-> ls2,
          lastRL |-> lrl2,
          sleep |-> IF cont THEN SleepSeconds[att] ELSE 0,
          n |-> IF ok /\ ~um.err THEN um.n ELSE 0,
          parseErr |-> ok /\ um.err,
          io |-> out.err \/ out.readErr ]

\* fetchActivitiesPage, one pass of the loop body on the outcome of a request.
AttemptStep(out, att, ls, lrl) ==
    LET ls2 == IF out.err THEN ls ELSE out.status
        lrl2 == IF out.err THEN lrl ELSE out.rl
        cont == out.err \/ out.readErr \/ out.status = StatusTooManyRequests
        um == Unmarshal(out.body)
        ok == ~cont /\ out.status = StatusOK
    IN  [ continue |-> cont,
          lastStatus |-> ls2,
          lastRL |-> lrl2,
          sleep |-> IF cont THEN SleepSeconds[att] ELSE 0,
          n |-> IF ok /\ ~um.err THEN um.n ELSE 0,
          parseErr |-> ok /\ um.err,
          io |-> out.err \/ out.readErr ]

\* Mutant of DriverDispatch: after a refresh only a second 401 is fatal.
DriverDispatchRetryOnly401(status, retry) ==
    IF retry
    THEN IF status = StatusUnauthorized THEN "fatal" ELSE "append"
    ELSE IF status = StatusUnauthorized THEN "reauth"
    ELSE IF status = StatusTooManyRequests THEN "pause"
    ELSE IF status # StatusOK THEN "fatal"
    ELSE "append"

\* Mutant of DriverDispatch: a 429 is fatal like any other status but 200.
DriverDispatchPauseIsFatal(status, retry) ==
    IF retry
    THEN IF status # StatusOK THEN "fatal" ELSE "append"
    ELSE IF status = StatusUnauthorized THEN "reauth"
    ELSE IF status # StatusOK THEN "fatal"
    ELSE "append"

\* main (variant 2): what the page loop does with the status of a fetch.
DriverDispatch(status, retry) ==
    IF retry
    THEN IF status # StatusOK THEN "fatal" ELSE "append"
    ELSE IF status = StatusUnauthorized THEN "reauth"
    ELSE IF status = StatusTooManyRequests THEN "pause"
    ELSE IF status # StatusOK THEN "fatal"
    ELSE "append"

\* Mutant of IsLastPage: only an empty page ends the loop.
IsLastPageEmptyOnly(n) == n = 0

\* main (variant 2): the last-page test.
IsLastPage(n) == n < perPage

\* main (variant 1): the test that asks for another page.
V1MorePages(n) == n = 200

\* Mutant of AppendPage: the page is appended twice.
AppendPageTwice(acc, p, n) ==
    IF n = 0 THEN acc
    ELSE Append(Append(acc, [ page |-> p, n |-> n ]), [ page |-> p, n |-> n ])

\* Mutant of AppendPage: the page replaces the collection.
AppendPageReplace(acc, p, n) ==
    IF n = 0 THEN acc ELSE << [ page |-> p, n |-> n ] >>

\* all = append(all, pageActs...): n activities of page p; nothing when n = 0.
AppendPage(acc, p, n) ==
    IF n = 0 THEN acc ELSE Append(acc, [ page |-> p, n |-> n ])

RECURSIVE Total(_)
Total(acc) == IF acc = <<>> THEN 0 ELSE Head(acc).n + Total(Tail(acc))

\* main (variant 2): the test of the rotation notice.
RotationNotice(rt, c) == rt # EmptyStr /\ rt # c.StravaRefreshToken


(***************************************************************************)
(* State                                                                   *)
(***************************************************************************)
VARIABLES
    variant,       \* which main of src/main.go runs: 1 or 2
    cfg,           \* envVars read from the configuration
    pc,            \* position of main
    accessToken,   \* main: accessToken (variant 1: result.AccessToken)
    refreshToken,  \* main: refreshToken (variant 1: result.RefreshToken)
    page,          \* main: page
    all,           \* main: all (variant 1: activities), as runs of one page
    attempt,       \* fetchActivitiesPage: attempt
    lastStatus,    \* fetchActivitiesPage: lastStatus
    lastRL,        \* fetchActivitiesPage: lastRL
    inRetry,       \* the fetch in progress is the retry that follows a refresh
    inflight,      \* the request the program waits on
    netCalls,      \* history: number of requests issued
    fetchCalls,    \* history: number of page fetches main started
    lastFetch,     \* history: what the last page fetch returned to main
    clean,         \* history: every page response so far was a 200 with a parsable body
    refreshCalls,  \* history: number of calls of refreshAccessToken
    grantCount,    \* history: number of grant requests issued
    lastRefresh,   \* history: return value of the last refreshAccessToken
    rotatedTo,     \* history: last refresh token returned that differs from the configured one
    notice,        \* the rotation notice was logged
    pauses60,      \* history: number of 60 second pauses
    reauths,       \* history: number of refreshes after a 401
    slept,         \* history: seconds of each time.Sleep of the latest step
    lastOutcome,   \* history: outcome of the request the latest step consumed
    ioOnly,        \* history: every attempt of this fetch ended in a transport or read error
    probeRes,      \* history: outcome of the probe of ensureAccessToken, until the page loop starts
    fatal,         \* message of logger.Fatalf, "" if none
    fnIn,          \* a function of the code called on its own: the function and its arguments
    fnOut          \* what that call returned

vars ==
    << variant, cfg, pc, accessToken, refreshToken, page, all, attempt,
       lastStatus, lastRL, inRetry, inflight, netCalls, fetchCalls, lastFetch, clean,
       refreshCalls, grantCount, lastRefresh, rotatedTo, notice, pauses60,
       reauths, slept, lastOutcome, ioOnly, probeRes, fatal, fnIn, fnOut >>

programVars ==
    << variant, cfg, pc, accessToken, refreshToken, page, all, attempt,
       lastStatus, lastRL, inRetry, inflight, netCalls, fetchCalls, lastFetch, clean,
       refreshCalls, grantCount, lastRefresh, rotatedTo, notice, pauses60,
       reauths, slept, lastOutcome, ioOnly, probeRes, fatal >>

fetchVars == << attempt, lastStatus, lastRL, inRetry, ioOnly >>
refreshVars == << refreshCalls, grantCount, lastRefresh >>
tokenVars == << accessToken, refreshToken, rotatedTo >>

LogEntry(p, status, n, retry, parseErr, exhausted, io) ==
    [ page |-> p, status |-> status, n |-> n, retry |-> retry,
      parseErr |-> parseErr, exhausted |-> exhausted, ioOnly |-> io ]

NoFetch == LogEntry(0, 0, 0, FALSE, FALSE, FALSE, FALSE)

\* A page response with status 200 and a body that parses.
CleanOutcome(out) ==
    ~out.err /\ ~out.readErr /\ out.status = StatusOK /\ out.body.ok

\* What the program sees of an outcome: the error of client.Do, the error of
\* io.ReadAll where the program checks it, the status.
NoOutcome == [ got |-> FALSE, err |-> FALSE, readErr |-> FALSE, status |-> 0 ]

Seen(out) ==
    [ got |-> TRUE, err |-> out.err, status |-> out.status,
      readErr |-> IF "readErr" \in DOMAIN out THEN out.readErr ELSE FALSE ]

NoProbe == [ got |-> FALSE, err |-> FALSE, status |-> 0 ]

NoRefresh == [ err |-> FALSE, at |-> EmptyStr, rt |-> EmptyStr ]

NoCall == [ fn |-> "none" ]

InitProgram ==
    /\ variant \in { 1, 2 }
    /\ cfg \in Configs
    /\ pc = "start"
    /\ accessToken = EmptyStr
    /\ refreshToken = EmptyStr
    /\ page = 1
    /\ all = <<>>
    /\ attempt = 0
    /\ lastStatus = 0
    /\ lastRL = NoRL
    /\ inRetry = FALSE
    /\ inflight = NoRequest
    /\ netCalls = 0
    /\ fetchCalls = 0
    /\ lastFetch = NoFetch
    /\ clean = TRUE
    /\ refreshCalls = 0
    /\ grantCount = 0
    /\ lastRefresh = NoRefresh
    /\ rotatedTo = EmptyStr
    /\ notice = FALSE
    /\ pauses60 = 0
    /\ reauths = 0
    /\ slept = <<>>
    /\ lastOutcome = NoOutcome
    /\ ioOnly = FALSE
    /\ probeRes = NoProbe
    /\ fatal = ""

Init ==
    /\ InitProgram
    /\ fnIn = NoCall
    /\ fnOut = NoCall

(***************************************************************************)
(* Pieces of the actions                                                   *)
(***************************************************************************)
\* The program issues request req and waits for its response at nextPc.
Issue(req, nextPc) ==
    /\ inflight' = req
    /\ pc' = nextPc
    /\ netCalls' = netCalls + 1
    /\ UNCHANGED fatal

\* Mutant of Fatalf: the message is logged and the process does not exit.
FatalfNoExit(reason) ==
    /\ inflight' = NoRequest
    /\ pc' = "running"
    /\ fatal' = reason
    /\ UNCHANGED netCalls

\* logger.Fatalf(reason): the process exits.
Fatalf(reason) ==
    /\ inflight' = NoRequest
    /\ pc' = "failed"
    /\ fatal' = reason
    /\ UNCHANGED netCalls

\* A call of refreshAccessToken up to its grant request; its caller exits on an error.
CallRefresh(waitPc, reason) ==
    /\ refreshCalls' = refreshCalls + 1
    /\ IF CredsMissing(cfg)
       THEN /\ lastRefresh' = RefreshConfigError
            /\ Fatalf(reason)
            /\ UNCHANGED grantCount
       ELSE /\ Issue(GrantRequest(cfg), waitPc)
            /\ grantCount' = grantCount + 1
            /\ UNCHANGED lastRefresh

\* A call of fetchActivitiesPage up to the request of its first attempt.
StartFetch(tok, p, retry) ==
    /\ attempt' = 1
    /\ lastStatus' = 0
    /\ lastRL' = NoRL
    /\ inRetry' = retry
    /\ ioOnly' = TRUE
    /\ fetchCalls' = fetchCalls + 1
    /\ Issue(PageRequest(tok, p), "fetch")

\* fetchActivitiesPage has returned and no fetch follows at once: its locals are gone.
EndFetch ==
    /\ attempt' = 0
    /\ lastStatus' = 0
    /\ lastRL' = NoRL
    /\ inRetry' = FALSE
    /\ ioOnly' = FALSE

\* Mutant of TakeTokens: the access token of main is not replaced.
TakeTokensKeepAccess(r) ==
    /\ accessToken' = accessToken
    /\ refreshToken' = r.rt
    /\ rotatedTo' = IF r.rt # EmptyStr /\ r.rt # cfg.StravaRefreshToken
                    THEN r.rt ELSE rotatedTo

\* main takes the tokens a refresh returned.
TakeTokens(r) ==
    /\ accessToken' = r.at
    /\ refreshToken' = r.rt
    /\ rotatedTo' = IF r.rt # EmptyStr /\ r.rt # cfg.StravaRefreshToken
                    THEN r.rt ELSE rotatedTo

\* The end of main (variant 2) after the page loop: totals and rotation notice.
Finish ==
    /\ inflight' = NoRequest
    /\ pc' = "done"
    /\ notice' = RotationNotice(refreshToken, cfg)
    /\ UNCHANGED << netCalls, fatal >>


(***************************************************************************)
(* Variant 2: main, ensureAccessToken, refreshAccessToken, probeToken,     *)
(* fetchActivitiesPage                                                     *)
(***************************************************************************)
\* main calls ensureAccessToken: refresh at once without a cached token, else probe.
EnsureAccessToken ==
    /\ pc = "start"
    /\ variant = 2
    /\ IF TrimSpace(cfg.StravaAccessToken) = EmptyStr
       THEN CallRefresh("ensure_grant", "ensure access token")
       ELSE /\ Issue(EnsureProbeRequest(cfg), "ensure_probe")
            /\ UNCHANGED refreshVars
    /\ lastOutcome' = NoOutcome
    /\ UNCHANGED << fnIn, fnOut, variant, cfg, tokenVars, page, all, fetchVars, fetchCalls, lastFetch, clean,
                    notice, pauses60, reauths, probeRes >>
    /\ slept' = <<>>

\* main goes on after ensureAccessToken returned tokens: probeToken's request.
CallProbeToken(tok) == Issue(AthleteRequest(tok), "probe_token")

\* ensureAccessToken receives the outcome of its probe.
EnsureProbeResponse ==
    /\ pc = "ensure_probe"
    /\ \E out \in ProbeOutcomes :
        /\ probeRes' = [ got |-> TRUE, err |-> out.err, status |-> out.status ]
        /\ lastOutcome' = Seen(out)
        /\ IF ProbeNeedsRefresh(out)
           THEN /\ CallRefresh("ensure_grant", "ensure access token")
                /\ UNCHANGED tokenVars
           ELSE /\ accessToken' = cfg.StravaAccessToken
                /\ refreshToken' = cfg.StravaRefreshToken
                /\ CallProbeToken(cfg.StravaAccessToken)
                /\ UNCHANGED << rotatedTo, refreshVars >>
    /\ UNCHANGED << fnIn, fnOut, variant, cfg, page, all, fetchVars, fetchCalls, lastFetch, clean,
                    notice, pauses60, reauths >>
    /\ slept' = <<>>

\* refreshAccessToken, called by ensureAccessToken, receives the outcome of the grant.
EnsureGrantResponse ==
    /\ pc = "ensure_grant"
    /\ \E out \in GrantOutcomes :
        LET r == RefreshReturn(out) IN
        /\ lastRefresh' = r
        /\ lastOutcome' = Seen(out)
        /\ IF r.err
           THEN /\ Fatalf("ensure access token")
                /\ UNCHANGED tokenVars
           ELSE /\ TakeTokens(r)
                /\ CallProbeToken(r.at)
    /\ UNCHANGED << fnIn, fnOut, variant, cfg, page, all, fetchVars, fetchCalls, lastFetch, clean,
                    refreshCalls, grantCount,
                    notice, pauses60, reauths, probeRes >>
    /\ slept' = <<>>

\* probeToken receives its outcome (a warning at most); the page loop starts.
ProbeTokenResponse ==
    /\ pc = "probe_token"
    /\ \E out \in ProbeOutcomes :
        /\ page' = 1
        /\ all' = <<>>
        /\ lastOutcome' = Seen(out)
        /\ StartFetch(accessToken, 1, FALSE)
    /\ probeRes' = NoProbe
    /\ UNCHANGED << fnIn, fnOut, variant, cfg, tokenVars, lastFetch, clean, refreshVars,
                    notice, pauses60, reauths >>
    /\ slept' = <<>>

\* fetchActivitiesPage receives the outcome of an attempt and tries again.
FetchRetry(out, st) ==
    /\ attempt' = attempt + 1
    /\ lastStatus' = st.lastStatus
    /\ lastRL' = st.lastRL
    /\ ioOnly' = (ioOnly /\ st.io)
    /\ slept' = << st.sleep >>
    /\ lastOutcome' = Seen(out)
    /\ Issue(PageRequest(accessToken, page), "fetch")
    /\ clean' = (clean /\ CleanOutcome(out))
    /\ UNCHANGED << fnIn, fnOut, variant, cfg, tokenVars, page, all, inRetry, fetchCalls,
                    lastFetch, refreshVars, notice, pauses60, reauths, probeRes >>

\* fetchActivitiesPage returns (n items, status) to main, which dispatches on it.
FetchReturn(out, st) ==
    LET status == st.lastStatus
        n == st.n
        todo == DriverDispatch(status, inRetry)
    IN
    /\ lastFetch' = LogEntry(page, status, n, inRetry, st.parseErr, st.continue,
                          st.continue /\ ioOnly /\ st.io)
    /\ clean' = (clean /\ CleanOutcome(out))
    /\ slept' = (IF st.continue THEN << st.sleep >> ELSE <<>>)
                 \o (IF todo = "pause" THEN << RateLimitPause >> ELSE <<>>)
    /\ lastOutcome' = Seen(out)
    /\ CASE todo = "reauth" ->
              /\ reauths < MaxReauth
              /\ reauths' = reauths + 1
              /\ CallRefresh("reauth_grant", "refresh after 401 failed")
              /\ EndFetch
              /\ UNCHANGED << page, all, fetchCalls, notice, pauses60 >>
         [] todo = "pause" ->
              /\ pauses60 < Max429
              /\ pauses60' = pauses60 + 1
              /\ StartFetch(accessToken, page, FALSE)
              /\ UNCHANGED << page, all, refreshVars, notice, reauths >>
         [] todo = "fatal" ->
              /\ Fatalf(IF inRetry THEN "after refresh, fetch failed"
                        ELSE "unexpected status code")
              /\ EndFetch
              /\ UNCHANGED << page, all, fetchCalls, refreshVars, notice,
                              pauses60, reauths >>
         [] todo = "append" ->
              /\ all' = AppendPage(all, page, n)
              /\ IF IsLastPage(n)
                 THEN /\ Finish
                      /\ EndFetch
                      /\ UNCHANGED << page, fetchCalls >>
                 ELSE /\ page < MaxPage
                      /\ page' = page + 1
                      /\ StartFetch(accessToken, page + 1, FALSE)
                      /\ UNCHANGED notice
              /\ UNCHANGED << refreshVars, pauses60, reauths >>
    /\ UNCHANGED << fnIn, fnOut, variant, cfg, tokenVars, probeRes >>

\* One response to a page request of fetchActivitiesPage.
FetchResponse ==
    /\ pc = "fetch"
    /\ \E out \in PageOutcomes :
        LET st == AttemptStep(out, attempt, lastStatus, lastRL) IN
        IF st.continue /\ attempt < maxRetries
        THEN FetchRetry(out, st)
        ELSE FetchReturn(out, st)

\* refreshAccessToken, called after a 401, receives the outcome of the grant;
\* on success main retries the same page with the new token.
ReauthGrantResponse ==
    /\ pc = "reauth_grant"
    /\ \E out \in GrantOutcomes :
        LET r == RefreshReturn(out) IN
        /\ lastRefresh' = r
        /\ lastOutcome' = Seen(out)
        /\ IF r.err
           THEN /\ Fatalf("refresh after 401 failed")
                /\ UNCHANGED << tokenVars, fetchVars, fetchCalls >>
           ELSE /\ TakeTokens(r)
                /\ StartFetch(r.at, page, TRUE)
    /\ UNCHANGED << fnIn, fnOut, variant, cfg, page, all, lastFetch, clean, refreshCalls, grantCount,
                    notice, pauses60, reauths, probeRes >>
    /\ slept' = <<>>

(***************************************************************************)
(* Variant 1: main                                                         *)
(***************************************************************************)
\* main up to the request of page 1, with the configured tokens.
V1Start ==
    /\ pc = "start"
    /\ variant = 1
    /\ accessToken' = cfg.StravaAccessToken
    /\ refreshToken' = cfg.StravaRefreshToken
    /\ page' = 1
    /\ all' = <<>>
    /\ fetchCalls' = fetchCalls + 1
    /\ Issue(PageRequest(cfg.StravaAccessToken, 1), "v1_fetch")
    /\ lastOutcome' = NoOutcome
    /\ UNCHANGED << fnIn, fnOut, variant, cfg, rotatedTo, fetchVars, lastFetch, clean, refreshVars,
                    notice, pauses60, reauths, probeRes >>
    /\ slept' = <<>>

\* One pass of the page loop: any error is fatal, the status is not looked at.
V1PageResponse ==
    /\ pc = "v1_fetch"
    /\ \E out \in V1Outcomes :
        LET um == Unmarshal(out.body)
            bad == out.err \/ out.readErr \/ um.err
        IN
        /\ lastFetch' = LogEntry(page, out.status, IF bad THEN 0 ELSE um.n, FALSE,
                              ~out.err /\ ~out.readErr /\ um.err, FALSE, FALSE)
        /\ clean' = (clean /\ CleanOutcome(out))
        /\ lastOutcome' = Seen(out)
        /\ IF bad
           THEN /\ Fatalf("v1")
                /\ UNCHANGED << page, all, fetchCalls >>
           ELSE /\ all' = AppendPage(all, page, um.n)
                /\ IF V1MorePages(um.n)
                   THEN /\ page < MaxPage
                        /\ page' = page + 1
                        /\ fetchCalls' = fetchCalls + 1
                        /\ Issue(PageRequest(accessToken, page + 1), "v1_fetch")
                   ELSE /\ inflight' = NoRequest
                        /\ pc' = "done"
                        /\ UNCHANGED << page, fetchCalls, netCalls, fatal >>
    /\ UNCHANGED << fnIn, fnOut, variant, cfg, tokenVars, fetchVars, refreshVars,
                    notice, pauses60, reauths, probeRes >>
    /\ slept' = <<>>

Next ==
    \/ EnsureAccessToken
    \/ EnsureProbeResponse
    \/ EnsureGrantResponse
    \/ ProbeTokenResponse
    \/ FetchResponse
    \/ ReauthGrantResponse
    \/ V1Start
    \/ V1PageResponse

Spec == Init /\ [][Next]_vars

\* The steps of variant 2.  Its client has a timeout (httpTimeout) and its
\* sleeps are finite, so a request in flight always gets an outcome.
V2Next ==
    \/ EnsureAccessToken
    \/ EnsureProbeResponse
    \/ EnsureGrantResponse
    \/ ProbeTokenResponse
    \/ FetchResponse
    \/ ReauthGrantResponse

\* The runs of variant 2 that start with a cached access token: they take
\* both ways through ensureAccessToken, the cached token and the refresh.
InitFair ==
    /\ Init
    /\ variant = 2
    /\ TrimSpace(cfg.StravaAccessToken) # EmptyStr

FairSpec == InitFair /\ [][V2Next]_vars /\ WF_vars(V2Next)

(***************************************************************************)
(* The functions of the code called on their own                           *)
(***************************************************************************)
\* Arguments of backoff: any int from below 1 up to MaxAttempt.
Attempts == (0 - 1) .. MaxAttempt

ActivityNames ==
    { DeskTreadmill,
      deskTreadmillLower,
      << " " >> \o DeskTreadmill \o << " ", " " >>,
      << "D", "E", "S", "K", " ", "T", "R", "E", "A", "D", "M", "I", "L", "L", " " >>,
      << "D", "e", "s", "k", " ", " ", "T", "r", "e", "a", "d", "m", "i", "l", "l" >>,
      << "D", "e", "s", "k" >>,
      << "R", "u", "n" >>,
      << >> }

\* Activity.Distance, in whole metres.
Distances == { 0, 1609, 5000 }

Activities == [ Name : ActivityNames, Distance : Distances ]

Collections == UNION { [ 1 .. n -> Activities ] : n \in 0 .. MaxActs }

FunctionCalls ==
    { [ fn |-> "backoff", attempt |-> n ] : n \in Attempts } \cup
    { [ fn |-> "aggregate", all |-> acts ] : acts \in Collections }

\* An idle program and one call of a function; backoff exists in variant 2.
InitPure ==
    /\ InitProgram
    /\ cfg = [ StravaClientId |-> << "i", "d" >>, StravaClientSecret |-> << "s" >>,
               StravaRefreshToken |-> << "R", "1" >>, StravaAccessToken |-> << "A", "0" >> ]
    /\ fnIn \in FunctionCalls
    /\ fnIn.fn = "backoff" => variant = 2
    /\ fnOut = NoCall

CallBackoff ==
    /\ fnIn.fn = "backoff"
    /\ fnOut = NoCall
    /\ fnOut' = [ fn |-> "backoff", d |-> backoff(fnIn.attempt) ]
    /\ UNCHANGED << fnIn, programVars >>

CallAggregate ==
    /\ fnIn.fn = "aggregate"
    /\ fnOut = NoCall
    /\ fnOut' = [ fn |-> "aggregate", res |-> Aggregate(variant, fnIn.all) ]
    /\ UNCHANGED << fnIn, programVars >>

PureNext ==
    \/ CallBackoff
    \/ CallAggregate

SpecPure == InitPure /\ [][PureNext]_vars


(***************************************************************************)
(* Properties                                                              *)
(***************************************************************************)
\* A string that holds nothing but spaces.
IsBlank(str) == \A i \in 1..Len(str) : str[i] = " "

BlankCredentials ==
    \/ IsBlank(cfg.StravaClientId)
    \/ IsBlank(cfg.StravaClientSecret)
    \/ IsBlank(cfg.StravaRefreshToken)

FullPages(k) == [ i \in 1..k |-> [ page |-> i, n |-> 200 ] ]

Fetching == pc \in { "fetch", "v1_fetch" }

\* The step returns from the fetch that retried a page after a refresh.
RetryReturns == pc = "fetch" /\ inRetry /\ ~inRetry'

\* C1: while every page response is a 200 with a parsable body, the driver
\* has fetched each page index 1..page once, all pages before the current
\* one were full, and it is done exactly when the page just fetched holds
\* fewer than 200 items; the collection then has the sum of the page sizes.
C1_PaginationStopsAtFirstShortPage ==
    clean =>
        /\ Fetching =>
            /\ fetchCalls = page
            /\ inflight = [ kind |-> "page", token |-> accessToken,
                            page |-> page, per_page |-> 200 ]
            /\ all = FullPages(page - 1)
        /\ pc = "done" =>
            /\ fetchCalls = page
            /\ lastFetch.page = page
            /\ lastFetch.status = 200
            /\ lastFetch.n < 200
            /\ SubSeq(all, 1, page - 1) = FullPages(page - 1)
            /\ Len(all) = IF lastFetch.n = 0 THEN page - 1 ELSE page
            /\ Total(all) = 200 * (page - 1) + lastFetch.n
        /\ pc = "failed" => fetchCalls = 0

C1_Witness ==
    /\ variant = 2
    /\ clean
    /\ pc = "done"
    /\ fetchCalls = 3
    /\ Total(all) = 550

\* C2: when the retry of page p after a refresh returns 200, its activities
\* are appended once to a collection that held nothing of page p, and the
\* driver is done if the page is short, otherwise it fetches page p+1.
C2_RetryProceedsAsFirstFetch ==
    [][ (RetryReturns /\ lastFetch'.status = 200) =>
            /\ lastFetch'.retry /\ lastFetch'.page = page
            /\ \A i \in 1..Len(all) : all[i].page < page
            /\ all' = IF lastFetch'.n = 0 THEN all
                      ELSE all \o << [ page |-> page, n |-> lastFetch'.n ] >>
            /\ lastFetch'.n < 200 => pc' = "done" /\ page' = page
            /\ lastFetch'.n >= 200 =>
                /\ pc' = "fetch" /\ page' = page + 1 /\ attempt' = 1
                /\ inflight' = [ kind |-> "page", token |-> accessToken,
                                 page |-> page + 1, per_page |-> 200 ]
      ]_vars

C2_Witness ==
    /\ pc = "done"
    /\ lastFetch.retry
    /\ lastFetch.status = 200
    /\ lastFetch.n = 80
    /\ page = 2
    /\ all = << [ page |-> 1, n |-> 200 ], [ page |-> 2, n |-> 80 ] >>

\* C3: when the retry of page p after a refresh returns a status other than
\* 200, the run fails in that step and issues no request, no refresh and no
\* pause; a failed run takes no further step.
C3_FailedRetryIsFinal ==
    [][ /\ (RetryReturns /\ lastFetch'.status # 200) =>
            /\ pc' = "failed"
            /\ inflight' = NoRequest
            /\ netCalls' = netCalls
            /\ fetchCalls' = fetchCalls
            /\ refreshCalls' = refreshCalls
            /\ grantCount' = grantCount
            /\ pauses60' = pauses60
            /\ reauths' = reauths
            /\ all' = all
        /\ pc = "failed" => pc' = "failed" /\ netCalls' = netCalls
      ]_vars

C3_Witness ==
    /\ pc = "failed"
    /\ lastFetch.retry
    /\ lastFetch.status = 429
    /\ reauths = 1
    /\ pauses60 = 0

\* C4: a page response with status 200 whose body does not parse ends the
\* run in FAILED, never in DONE.
C4_UnparsableBodyFails ==
    lastFetch.parseErr => pc = "failed"

\* C5: a fetch whose 3 attempts all ended in a transport or body-read error
\* puts the driver in FAILED.
C5_ExhaustedFetchFails ==
    lastFetch.ioOnly => pc = "failed"

\* C6: a run with a blank client id, client secret or refresh token aborts
\* before any network request is issued.
C6_BlankCredentialsAbortBeforeNetwork ==
    (variant = 2 /\ BlankCredentials) =>
        /\ netCalls = 0
        /\ pc \in { "start", "failed" }

\* C7: a call of refreshAccessToken with a blank client id, client secret or
\* refresh token returns an error and no tokens and issues no request.
C7_RefreshRejectsBlankCredentials ==
    [][ (refreshCalls' = refreshCalls + 1 /\ BlankCredentials) =>
            /\ lastRefresh'.err
            /\ lastRefresh'.at = <<>>
            /\ lastRefresh'.rt = <<>>
            /\ netCalls' = netCalls
            /\ grantCount' = grantCount
            /\ inflight' = NoRequest
            /\ UNCHANGED << accessToken, refreshToken >>
      ]_vars

C7_Witness ==
    /\ IsBlank(cfg.StravaRefreshToken)
    /\ ~IsBlank(cfg.StravaClientId)
    /\ ~IsBlank(cfg.StravaClientSecret)
    /\ refreshCalls = 1
    /\ lastRefresh.err
    /\ grantCount = 0
    /\ pc = "failed"

\* C8: once a grant has returned a refresh token that differs from the one
\* sent, every later grant sends that new refresh token.
C8_LaterGrantsSendRotatedToken ==
    (inflight.kind = "grant" /\ rotatedTo # <<>>) => inflight.token = rotatedTo

\* C9: a run in which a grant returned a refresh token that differs from the
\* configured one has logged the rotation notice when it terminates.
C9_RotationNoticeBeforeTermination ==
    (pc \in { "done", "failed" } /\ rotatedTo # <<>>) => notice

\* C10: when the probe of ensureAccessToken gets a response with a status
\* other than 401, ensureAccessToken returns the cached access token and the
\* configured refresh token and no refresh is started.
C10_ProbeAcceptsCachedToken ==
    [][ (pc = "ensure_probe" /\ probeRes'.got /\ ~probeRes'.err
            /\ probeRes'.status # 401) =>
            /\ ~IsBlank(cfg.StravaAccessToken)
            /\ pc' = "probe_token"
            /\ accessToken' = cfg.StravaAccessToken
            /\ refreshToken' = cfg.StravaRefreshToken
            /\ inflight' = [ kind |-> "athlete", token |-> cfg.StravaAccessToken,
                             page |-> 0, per_page |-> 0 ]
            /\ refreshCalls' = 0
            /\ grantCount' = 0
      ]_vars

C10_Witness ==
    /\ pc = "probe_token"
    /\ probeRes.got
    /\ probeRes.status = 429
    /\ accessToken = << "A", "0" >>
    /\ refreshToken = cfg.StravaRefreshToken
    /\ grantCount = 0


\* ensureAccessToken has gone through its refresh path and main has not yet
\* started the page loop.
EnsureRefreshed ==
    /\ variant = 2
    /\ fetchCalls = 0
    /\ pc \in { "ensure_grant", "probe_token", "failed" }
    /\ \/ IsBlank(cfg.StravaAccessToken)
       \/ probeRes.got /\ (probeRes.err \/ probeRes.status = 401)

\* What ensureAccessToken does on its refresh path, with grants the number
\* of grant requests it is to have issued.
EnsureRefreshOutcome(grants) ==
    /\ refreshCalls = 1
    /\ grantCount = grants
    /\ IsBlank(cfg.StravaAccessToken) <=> ~probeRes.got
    /\ netCalls = grantCount + (IF probeRes.got THEN 1 ELSE 0)
                  + (IF pc = "probe_token" THEN 1 ELSE 0)
    /\ pc = "ensure_grant" => inflight.kind = "grant"
    /\ pc = "probe_token" =>
        /\ ~lastRefresh.err
        /\ accessToken = lastRefresh.at
        /\ refreshToken = lastRefresh.rt
    /\ pc = "failed" => lastRefresh.err

\* C11 as stated: with an empty cached token (and then no probe), a probe
\* that fails in transport or a probe answered 401, ensureAccessToken issues
\* exactly one refresh grant and returns its outcome.
C11_ExactlyOneGrant ==
    EnsureRefreshed => EnsureRefreshOutcome(1)

\* C11 as amended: in those cases ensureAccessToken calls refreshAccessToken
\* exactly once and returns its outcome; that call issues exactly one grant
\* when client id, client secret and refresh token are all non-blank and
\* none when one of them is blank.
C11_OneRefreshCallAtMostOneGrant ==
    EnsureRefreshed =>
        EnsureRefreshOutcome(IF BlankCredentials THEN 0 ELSE 1)

C11_Witness ==
    /\ variant = 2
    /\ pc = "probe_token"
    /\ probeRes.got
    /\ probeRes.status = 401
    /\ grantCount = 1
    /\ netCalls = 3
    /\ accessToken = << "A", "1" >>


Terminal == pc \in { "done", "failed" }

SameLetter(x, y) ==
    \/ x = y
    \/ \E n \in 1 .. Len(UpperCase) : { x, y } = { UpperCase[n], LowerCase[n] }

\* name is "Desk Treadmill" in some case between runs of white space.
IsDeskTreadmill(name) ==
    \E i \in 1 .. Len(name) + 1 :
        /\ \A k \in 1 .. (i - 1) : name[k] = " "
        /\ i + Len(DeskTreadmill) - 1 <= Len(name)
        /\ \A k \in 1 .. Len(DeskTreadmill) : SameLetter(name[i + k - 1], DeskTreadmill[k])
        /\ \A k \in (i + Len(DeskTreadmill)) .. Len(name) : name[k] = " "

RECURSIVE SumDistances(_, _)
SumDistances(acts, S) ==
    IF S = {} THEN 0
    ELSE LET x == CHOOSE y \in S : TRUE
         IN  acts[x].Distance + SumDistances(acts, S \ { x })

\* C13: for every attempt n >= 1, backoff(n) is min(2^(n-1), 30) seconds,
\* whatever the size of n.
C13_BackoffIsCappedPowerOfTwo ==
    (fnOut.fn = "backoff" /\ fnIn.attempt >= 1) =>
        fnOut.d = SecondsDuration(IF fnIn.attempt - 1 >= 5
                                  THEN BackoffCap
                                  ELSE 2 ^ (fnIn.attempt - 1))

\* C14: the aggregation of variant 2 counts the activities whose name is
\* "Desk Treadmill" once trimmed and whatever the case, sums the distances
\* of exactly those, and leaves the collection as it was.
C14_AggregateCountsMatchingNames ==
    (fnOut.fn = "aggregate" /\ variant = 2) =>
        LET acts == fnIn.all
            M == { i \in 1 .. Len(acts) : IsDeskTreadmill(acts[i].Name) }
        IN  /\ fnOut.res.deskCount = Cardinality(M)
            /\ fnOut.res.totalMeters = SumDistances(acts, M)
            /\ fnOut.res.all = acts

C14_Witness ==
    /\ fnOut.fn = "aggregate"
    /\ variant = 2
    /\ Len(fnIn.all) = 2
    /\ fnIn.all[1] = [ Name |-> << " " >> \o DeskTreadmill \o << " ", " " >>, Distance |-> 1609 ]
    /\ fnIn.all[2] = [ Name |-> << "D", "e", "s", "k" >>, Distance |-> 5000 ]
    /\ fnOut.res.deskCount = 1
    /\ fnOut.res.totalMeters = 1609


\* The step takes the outcome of an attempt of fetchActivitiesPage and the
\* call goes on with its next attempt.
NextAttempt == pc = "fetch" /\ attempt' = attempt + 1

\* The step takes the outcome of the last attempt of a call of
\* fetchActivitiesPage: the call returns to main.
FetchReturns == pc = "fetch" /\ attempt' # attempt + 1

C16_AtMostThreeAttempts ==
    /\ [](pc = "fetch" => attempt \in 1 .. 3)
    /\ [][ /\ NextAttempt =>
                /\ attempt < 3
                /\ \/ lastOutcome'.err
                   \/ lastOutcome'.readErr
                   \/ lastOutcome'.status = 429
           /\ ( /\ pc = "fetch"
                /\ ~lastOutcome'.err
                /\ ~lastOutcome'.readErr
                /\ lastOutcome'.status # 429 ) =>
                /\ FetchReturns
                /\ lastFetch'.page = page
                /\ lastFetch'.status = lastOutcome'.status
                /\ lastFetch'.status # 200 => lastFetch'.n = 0 ]_vars

C16_Witness ==
    /\ pc = "failed"
    /\ lastFetch.status = 500
    /\ lastFetch.n = 0
    /\ lastOutcome.status = 500
    /\ ~lastOutcome.readErr
    /\ slept = << >>
    /\ netCalls = 4
    /\ fetchCalls = 1

\* C17: page indexes start at 1 and never decrease; the next page is asked
\* for only after a 200 with exactly 200 items for the current page was
\* appended; while page p is fetched the collection is pages 1..p-1, each
\* once and in order, 200 * (p - 1) activities.
C17_PagesInOrderEachOnce ==
    /\ [](page >= 1)
    /\ []((variant = 2 /\ pc = "fetch") =>
            /\ inflight.page = page
            /\ all = [ i \in 1 .. (page - 1) |-> [ page |-> i, n |-> 200 ] ]
            /\ Total(all) = 200 * (page - 1))
    /\ [][ variant = 2 =>
            /\ page' >= page
            /\ page' # page =>
                /\ page' = page + 1
                /\ FetchReturns
                /\ lastFetch' = [ lastFetch' EXCEPT !.page = page, !.status = 200, !.n = 200 ]
                /\ lastOutcome'.status = 200
                /\ all' = all \o << [ page |-> page, n |-> 200 ] >>
                /\ inflight'.page = page + 1 ]_vars

C17_Witness ==
    /\ variant = 2
    /\ pc = "fetch"
    /\ page = 3
    /\ Len(all) = 2
    /\ Total(all) = 400
    /\ reauths = 1
    /\ pauses60 = 1

\* C18: once a refresh after a 401 has succeeded, every page request
\* carries the access token of the latest successful refresh, which is the
\* access token main holds.
C18_LaterRequestsCarryRefreshedToken ==
    (pc = "fetch" /\ reauths >= 1) =>
        /\ ~lastRefresh.err
        /\ accessToken = lastRefresh.at
        /\ inflight.kind = "page"
        /\ inflight.token = lastRefresh.at

C18_Witness ==
    /\ pc = "fetch"
    /\ reauths = 1
    /\ page = 2
    /\ cfg.StravaAccessToken = << "A", "0" >>
    /\ lastRefresh.at = << "A", "2" >>
    /\ inflight.token = << "A", "2" >>
    /\ grantCount = 1

\* C19: a run fails on a transport failure only when that failure ends the
\* bounded attempts of a fetch; one transport failure alone never fails it.
C19_OneTransportFailureIsNotFatal ==
    (variant = 2 /\ pc = "failed" /\ lastOutcome.err) =>
        /\ lastFetch.exhausted
        /\ fatal \in { "unexpected status code", "after refresh, fetch failed" }

====
